---- MODULE Spec2Model ----
(***************************************************************************)
(* A model of the ECS library (src/ECS.h) and of the sample client         *)
(* (src/sample.cpp): the World with its entity sequence, system lists and  *)
(* event bus, the entities with their component maps, and the lazy views.  *)
(*                                                                         *)
(* Every operation of the library is a pure operator on a record of the    *)
(* world's state (so that an event handler can call back into the world    *)
(* while an operation is running, as in the C++), and every call a client  *)
(* makes is one action that commits the operator's result.                 *)
(***************************************************************************)
EXTENDS Integers, Sequences, FiniteSets, TLC

\* ------------------------------------------------------------------ bounds
MaxEntities == 3        \* entities allocated in one run
MaxOwners == 2          \* entities allocated where components are the subject
MaxSystems == 2         \* system objects the client owns
MaxCoord == 20          \* the coordinate ticks may move a Position up to
MaxBucket == 2          \* subscribers in one bucket of the subscriber map

\* --------------------------------------------------------------- constants
InvalidEntityId == 0    \* Entity::InvalidEntityId
NullPtr == 0            \* nullptr: no entity, no container, an invalid handle

Types == {"Position", "Rotation"}      \* the component types of the sample
Values == {1, 2}                       \* constructor arguments of a component
Systems == 1..MaxSystems
Payloads == {10, 20}                   \* the deltaTime a client passes to tick
NoType == "-"

\* The subscriber objects of the client.  testSystem is the TestSystem of the
\* sample; logA and logB only print, as most handlers of TestSystem do;
\* cascade removes the Rotation of an entity whose Position is removed.
Subscribers == {"testSystem", "logA", "logB", "cascade", "reaper"}

\* std::unordered_map iterates in an unspecified order: the orders a build
\* can produce for the component map of an entity.
Orders == {<<"Position", "Rotation">>, <<"Rotation", "Position">>}

\* The keys of the subscriber map: getTypeIndex<T>() of each event type.
EvKey(ev, t) == <<ev, t>>
EvKeys ==
  {EvKey("OnEntityCreated", NoType), EvKey("OnEntityDestroyed", NoType),
   EvKey("SomeEvent", NoType)}
  \cup {EvKey("OnComponentAssigned", t) : t \in Types}
  \cup {EvKey("OnComponentRemoved", t) : t \in Types}

VARIABLES
  entities,         \* World::entities: the sequence of entity pointers
  heap,             \* the memory of the Entity objects, by address
  lastEntityId,     \* World::lastEntityId
  systems,          \* World::systems: the active systems
  disabledSystems,  \* World::disabledSystems
  subscribers,      \* World::subscribers: event key -> sequence of subscribers
  sysObj,           \* the client's EntitySystem objects and the hooks called on them
  alive,            \* FALSE once the World is destroyed
  log,              \* what the last call emitted, delivered and deallocated, in order
  lastCall,         \* the last call a client made, with its result
  scan              \* the range-for loop over a view that is running, if any

vars == <<entities, heap, lastEntityId, systems, disabledSystems,
          subscribers, sysObj, alive, log, lastCall, scan>>

\* ------------------------------------------------------------- the objects
Addrs == 1..MaxEntities

\* An entry of Entity::components and the ComponentContainer<T> it points
\* to: no entry ("none"), an entry and its container ("live"), or an entry
\* whose container has been deallocated ("freed").  evRemoved counts the
\* calls of removed() on the container.
NoComp == [st |-> "none", data |-> 0, evRemoved |-> 0]
NoComps == [t \in Types |-> NoComp]

\* ComponentContainer<T>(data)
NewContainer(v) == [st |-> "live", data |-> v, evRemoved |-> 0]

\* The memory of an Entity: never used, an object (alloc), or deallocated.
\* The allocator hands out the addresses in order and none twice in a run,
\* so that a pointer to a deallocated object stays one.  evDestroyed counts
\* the OnEntityDestroyed events emitted for the object.
FreeSlot ==
  [alloc |-> FALSE, used |-> FALSE, id |-> InvalidEntityId, pending |-> FALSE,
   comps |-> NoComps, evDestroyed |-> 0]
Deallocated == [FreeSlot EXCEPT !.used = TRUE]

\* Entity(world, id): no components, not pending destroy
NewEntity(id) == [FreeSlot EXCEPT !.alloc = TRUE, !.used = TRUE, !.id = id]

\* An EntitySystem of the client, not yet registered.  The fields record
\* the hooks called on it: regNo is its rank among the registered systems.
NewSystem ==
  [nConfigure |-> 0, nUnconfigure |-> 0, lateTick |-> FALSE, freed |-> 0,
   regNo |-> 0]

InSeq(s, x) == \E i \in 1..Len(s) : s[i] = x
\* An erase that fills the hole with the last element
RemoveSwapping(s, x) ==
  IF ~InSeq(s, x) THEN s
  ELSE LET i == CHOOSE k \in 1..Len(s) : s[k] = x IN
       [j \in 1..(Len(s) - 1) |-> IF j = i THEN s[Len(s)] ELSE s[j]]
RemoveValue(s, x) == SelectSeq(s, LAMBDA y : y # x)
IndexOf(s, x) == IF InSeq(s, x) THEN CHOOSE i \in 1..Len(s) : s[i] = x /\ \A j \in 1..(i-1) : s[j] # x ELSE 0
RemoveAt(s, i) == [j \in 1..(Len(s) - 1) |-> IF j < i THEN s[j] ELSE s[j + 1]]

\* The world as one value: the state the operators below transform.  ord is
\* the iteration order of unordered_map in this call, ret and retOk the
\* value a call returns.
Cur(ord) ==
  [entities |-> entities, heap |-> heap,
   lastEntityId |-> lastEntityId, systems |-> systems,
   disabledSystems |-> disabledSystems, subscribers |-> subscribers,
   sysObj |-> sysObj, alive |-> alive, log |-> <<>>, ord |-> ord,
   ret |-> NullPtr, retOk |-> FALSE]

\* ----------------------------------------------------------------- queries
\* Entity::has<T>()
Has(w, a, t) == w.heap[a].comps[t].st # "none"

\* Entity::has<T, V, Types...>()
HasAll(w, a, ts) == \A t \in ts : Has(w, a, t)

\* Entity::has<T, V, Types...>() as the template expands: has<T>() &&
\* has<V, Types...>(), over the list of types as written
RECURSIVE HasTypes(_, _, _)
HasTypes(w, a, ts) ==
  IF Len(ts) = 1 THEN Has(w, a, ts[1])
  ELSE Has(w, a, ts[1]) /\ HasTypes(w, a, Tail(ts))

\* Entity::get<T>(): whether the handle returned is valid
Get(w, a, t) == w.heap[a].comps[t].st # "none"

\* World::getCount()
GetCount(w) == Len(w.entities)

\* World::getByIndex(idx), idx counted from 0
GetByIndex(w, idx) ==
  IF idx >= GetCount(w) THEN NullPtr ELSE w.entities[idx + 1]

\* World::getById(id) that passes over the entities pending destroy
GetByIdNotPending(w, id) ==
  LET found == {i \in 1..Len(w.entities) :
                  /\ w.heap[w.entities[i]].id = id
                  /\ ~w.heap[w.entities[i]].pending}
  IN IF id = InvalidEntityId \/ id > w.lastEntityId \/ found = {} THEN NullPtr
     ELSE w.entities[CHOOSE i \in found : \A j \in found : i <= j]

\* World::getById(id)
GetById(w, id) ==
  IF id = InvalidEntityId \/ id > w.lastEntityId THEN NullPtr
  ELSE IF \E i \in 1..Len(w.entities) : w.heap[w.entities[i]].id = id
       THEN w.entities[CHOOSE i \in 1..Len(w.entities) :
                         /\ w.heap[w.entities[i]].id = id
                         /\ \A j \in 1..(i - 1) : w.heap[w.entities[j]].id # id]
       ELSE NullPtr

\* ------------------------------------------------------------------- views
\* EntityIterator and EntityComponentIterator<Types...> are one record:
\* EntityIterator is the iterator with no required type.  index counts from 0.
Iterator(w, index, bIsEnd, types, incl) ==
  [index |-> index, bIsEnd |-> bIsEnd \/ index >= GetCount(w),
   types |-> types, incl |-> incl]

\* isEnd()
ItIsEnd(w, it) == it.bIsEnd \/ it.index >= GetCount(w)

\* get()
ItGet(w, it) == IF ItIsEnd(w, it) THEN NullPtr ELSE GetByIndex(w, it.index)

\* The test without the clause on isPendingDestroy()
ItSkipsNoPending(w, it) ==
  LET ent == ItGet(w, it) IN
  \/ ent = NullPtr
  \/ ~HasAll(w, ent, it.types)

\* The test of the constructor of the view and of the while loop of
\* operator++: the entity the iterator is at is not to be yielded.
ItSkips(w, it) ==
  LET ent == ItGet(w, it) IN
  \/ ent = NullPtr
  \/ ~HasAll(w, ent, it.types)
  \/ (w.heap[ent].pending /\ ~it.incl)

RECURSIVE ItSkipLoop(_, _)
ItSkipLoop(w, it) ==
  IF it.index < GetCount(w) /\ ItSkips(w, it)
  THEN ItSkipLoop(w, [it EXCEPT !.index = @ + 1])
  ELSE it

\* operator++() without the leading ++index: the iterator stays on an entity
\* that is still to be yielded
ItNextStaying(w, it) ==
  LET j == ItSkipLoop(w, it) IN
  [j EXCEPT !.bIsEnd = @ \/ j.index >= GetCount(w)]

\* operator++() without the while loop
ItNextUnfiltered(w, it) ==
  [it EXCEPT !.index = @ + 1, !.bIsEnd = @ \/ it.index + 1 >= GetCount(w)]

\* operator++()
ItNext(w, it) ==
  LET j == ItSkipLoop(w, [it EXCEPT !.index = @ + 1]) IN
  [j EXCEPT !.bIsEnd = @ \/ j.index >= GetCount(w)]

\* A view whose constructor advances the first iterator whatever it is at
ViewBeginAdvanced(w, types, incl) ==
  ItNext(w, Iterator(w, 0, FALSE, types, incl))

\* begin() of the view World::each<Types...>(incl) or World::all(incl)
\* returns: the constructor of the view advances a first iterator that is
\* not to be yielded.
ViewBegin(w, types, incl) ==
  LET first == Iterator(w, 0, FALSE, types, incl) IN
  IF ItSkips(w, first) THEN ItNext(w, first) ELSE first

\* operator!=(end), end being Iterator(world, lastIndex, true, ...)
ItNotEnd(w, it, lastIndex) ==
  IF ItIsEnd(w, it) THEN FALSE ELSE it.index # lastIndex

\* --------------------------------------------------------------- event bus
Event(ev, a, t) == [ev |-> ev, ent |-> a, t |-> t, num |-> 0]
NoEvent == Event("-", NullPtr, NoType)
\* SomeEvent{ num } of the sample
SomeEvent(n) == [ev |-> "SomeEvent", ent |-> NullPtr, t |-> NoType, num |-> n]

\* What a subscriber sees of the event's entity when the event reaches it
Snap(w, e) ==
  IF e.ent = NullPtr
  THEN [inSeq |-> FALSE, obj |-> FreeSlot]
  ELSE [inSeq |-> InSeq(w.entities, e.ent), obj |-> w.heap[e.ent]]

\* The record of an effect of the running call, in call order
Note(w, k, sub, sys, e) ==
  [w EXCEPT !.log = Append(@, [k |-> k, sub |-> sub, sys |-> sys, e |-> e,
                               snap |-> Snap(w, e)])]

RECURSIVE Remove(_, _, _)
RECURSIVE Destroy(_, _, _)

\* The callback of TestSystem::receive(SomeEvent) on the entity the scan
\* yields: it destroys the entity whose id is event.num when it is at the
\* entity before it, and prints "Woah, we shouldn't get here!" (the note
\* "woah") when it is at the entity whose id is event.num.
SampleBody(w, ent, num) ==
  LET w1 == IF w.heap[ent].id + 1 = num
            THEN Destroy(w, GetById(w, num), FALSE) ELSE w
  IN IF w1.heap[ent].id = num
     THEN Note(w1, "woah", "testSystem", 0, Event("-", ent, NoType))
     ELSE w1

\* The range-for loop of World::all(viewFunc) as that handler runs it
RECURSIVE SampleLoop(_, _, _, _)
SampleLoop(w, it, lastIndex, num) ==
  IF ~ItNotEnd(w, it, lastIndex) THEN w
  ELSE LET w1 == SampleBody(w, ItGet(w, it), num) IN
       SampleLoop(w1, ItNext(w1, it), lastIndex, num)

\* TestSystem::receive(world, SomeEvent)
ReceiveSomeEvent(w, num) ==
  SampleLoop(w, ViewBegin(w, {}, FALSE), GetCount(w), num)

\* EventSubscriber<T>::receive of each subscriber object.
Receive(w, sub, e) ==
  LET w1 == Note(w, "recv", sub, 0, e) IN
  IF sub = "cascade" /\ e.ev = "OnComponentRemoved" /\ e.t = "Position"
  THEN Remove(w1, e.ent, "Rotation")
  ELSE IF sub = "testSystem" /\ e.ev = "SomeEvent"
  THEN ReceiveSomeEvent(w1, e.num)
  ELSE IF sub = "reaper" /\ e.ev = "OnEntityDestroyed"
  THEN Destroy(w1, e.ent, TRUE)
  ELSE w1

\* The loop of emit run from the last entry of the bucket to the first
RECURSIVE DeliverReversed(_, _, _, _)
DeliverReversed(w, bucket, i, e) ==
  IF i > Len(bucket) THEN w
  ELSE DeliverReversed(Receive(w, bucket[Len(bucket) + 1 - i], e), bucket, i + 1, e)

RECURSIVE Deliver(_, _, _, _)
Deliver(w, bucket, i, e) ==
  IF i > Len(bucket) THEN w
  ELSE Deliver(Receive(w, bucket[i], e), bucket, i + 1, e)

\* World::emit<T>(event) that delivers only when no emit is in progress:
\* an event emitted by a handler is dropped
EmitTopLevelOnly(w, e) ==
  LET w1 == Note(w, "emit", "-", 0, e)
      key == EvKey(e.ev, e.t) IN
  IF key \in DOMAIN w1.subscribers /\ w.log = <<>>
  THEN Deliver(w1, w1.subscribers[key], 1, e)
  ELSE w1

\* World::emit<T>(event)
Emit(w, e) ==
  LET w1 == Note(w, "emit", "-", 0, e)
      key == EvKey(e.ev, e.t) IN
  IF key \in DOMAIN w1.subscribers
  THEN Deliver(w1, w1.subscribers[key], 1, e)
  ELSE w1

\* ------------------------------------------------------ entity: components
\* ComponentContainer<T>::removed(ent), on the container of the entry t
Removed(w, a, t) ==
  Emit([w EXCEPT !.heap[a].comps[t].evRemoved = @ + 1],
       Event("OnComponentRemoved", a, t))

\* ComponentContainer<T>::destroy(world): the container is deallocated; the
\* entry of the map still points to it
DestroyContainer(w, a, t) ==
  [Note(w, "release", "-", 0, Event("-", a, t)) EXCEPT
     !.heap[a].comps[t].st = "freed"]

\* Entity::assign that allocates and inserts a container in every call
AssignAllocating(w, a, t, v) ==
  LET w1 == Note(w, "alloc", "-", 0, Event("-", a, t))
      w2 == [w1 EXCEPT !.heap[a].comps[t] = NewContainer(v)]
      w3 == Emit(w2, Event("OnComponentAssigned", a, t))
  IN [w3 EXCEPT !.retOk = TRUE]

\* Entity::assign<T>(args...)
Assign(w, a, t, v) ==
  IF w.heap[a].comps[t].st # "none"
  THEN LET w1 == [w EXCEPT !.heap[a].comps[t].data = v]
           w2 == Emit(w1, Event("OnComponentAssigned", a, t))
       IN [w2 EXCEPT !.retOk = TRUE]
  ELSE LET w1 == Note(w, "alloc", "-", 0, Event("-", a, t))
           w2 == [w1 EXCEPT !.heap[a].comps[t] = NewContainer(v)]
           w3 == Emit(w2, Event("OnComponentAssigned", a, t))
       IN [w3 EXCEPT !.retOk = TRUE]

\* Entity::remove that deallocates the container before it calls removed()
RemoveReleaseFirst(w, a, t) ==
  IF w.heap[a].comps[t].st # "none"
  THEN LET w1 == DestroyContainer(w, a, t)
           w2 == Removed(w1, a, t)
       IN [w2 EXCEPT !.heap[a].comps[t] = NoComp, !.retOk = TRUE]
  ELSE [w EXCEPT !.retOk = FALSE]

\* Entity::remove<T>()
Remove(w, a, t) ==
  IF w.heap[a].comps[t].st # "none"
  THEN LET w1 == Removed(w, a, t)
           w2 == DestroyContainer(w1, a, t)
       IN [w2 EXCEPT !.heap[a].comps[t] = NoComp, !.retOk = TRUE]
  ELSE [w EXCEPT !.retOk = FALSE]

\* The loop of Entity::removeAll(): the entries of the map in the order
\* w.ord, each read when the loop reaches it (an entry a handler erased in
\* the meantime is not visited; an entry the loop has passed stays in the
\* map until clear()).
RECURSIVE RemoveAllFrom(_, _, _)
RemoveAllFrom(w, a, i) ==
  IF i > Len(w.ord) THEN w
  ELSE IF w.heap[a].comps[w.ord[i]].st = "none" THEN RemoveAllFrom(w, a, i + 1)
  ELSE RemoveAllFrom(
         DestroyContainer(Removed(w, a, w.ord[i]), a, w.ord[i]), a, i + 1)

\* Entity::removeAll()
RemoveAll(w, a) ==
  [RemoveAllFrom(w, a, 1) EXCEPT !.heap[a].comps = NoComps]

\* ~Entity() and the deallocation of the object; the memory keeps the id
\* the object had
FreeEntity(w, a) ==
  LET w1 == RemoveAll(w, a) IN
  [Note(w1, "free", "-", 0, Event("-", a, NoType)) EXCEPT
     !.heap[a] = [Deallocated EXCEPT !.id = w.heap[a].id]]

\* ----------------------------------------------------------- world: entities
\* std::allocator_traits<EntityAllocator>::allocate(entAlloc, 1)
Allocate(w) == CHOOSE a \in Addrs : ~w.heap[a].used /\ \A b \in 1..(a - 1) : w.heap[b].used

\* World::create without ++lastEntityId
CreateSameId(w) ==
  LET id == w.lastEntityId
      a  == Allocate(w)
      w1 == [w EXCEPT !.heap[a] = NewEntity(id),
                      !.entities = Append(@, a)]
      w2 == Emit(w1, Event("OnEntityCreated", a, NoType))
  IN [w2 EXCEPT !.ret = a]

\* World::create()
Create(w) ==
  LET id == w.lastEntityId + 1
      a  == Allocate(w)
      w1 == [w EXCEPT !.lastEntityId = id,
                      !.heap[a] = NewEntity(id),
                      !.entities = Append(@, a)]
      w2 == Emit(w1, Event("OnEntityCreated", a, NoType))
  IN [w2 EXCEPT !.ret = a]

\* The deallocation in World::destroy without the erase from the sequence
FreeWithoutErase(w, a) == FreeEntity(w, a)

\* entities.erase(std::remove(...)) and the deallocation, in World::destroy
EraseAndFree(w, a) ==
  FreeEntity([w EXCEPT !.entities = RemoveValue(@, a)], a)

\* The mark and the emit, made after the components are removed
EmitAfterRemoveAll(w, a) ==
  Emit(RemoveAll([w EXCEPT !.heap[a].pending = TRUE, !.heap[a].evDestroyed = @ + 1], a),
       Event("OnEntityDestroyed", a, NoType))

\* ent->bPendingDestroy = true; emit<OnEntityDestroyed>({ ent })
MarkAndEmit(w, a) ==
  Emit([w EXCEPT !.heap[a].pending = TRUE, !.heap[a].evDestroyed = @ + 1],
       Event("OnEntityDestroyed", a, NoType))

\* World::destroy without the test of isPendingDestroy(): every call marks
\* the entity and emits.
DestroyUnguarded(w, a, immediate) ==
  IF a = NullPtr THEN w
  ELSE LET w1 == MarkAndEmit(w, a) IN
       IF immediate THEN EraseAndFree(w1, a) ELSE w1

\* World::destroy that erases and deallocates whatever immediate is
DestroyEager(w, a, immediate) ==
  IF a = NullPtr THEN w
  ELSE IF w.heap[a].pending THEN EraseAndFree(w, a)
       ELSE EraseAndFree(MarkAndEmit(w, a), a)

\* World::destroy whose immediate branch deallocates without the mark and
\* the emit
DestroySilently(w, a, immediate) ==
  IF a = NullPtr THEN w
  ELSE IF immediate THEN EraseAndFree(w, a)
       ELSE IF w.heap[a].pending THEN w ELSE MarkAndEmit(w, a)

\* World::destroy(ent, immediate)
Destroy(w, a, immediate) ==
  IF a = NullPtr THEN w
  ELSE IF w.heap[a].pending
       THEN IF immediate THEN EraseAndFree(w, a) ELSE w
       ELSE LET w1 == MarkAndEmit(w, a) IN
            IF immediate THEN EraseAndFree(w1, a) ELSE w1

\* A remove_if that puts each entity it keeps before those it kept earlier
RECURSIVE CleanupReversing(_, _, _, _)
CleanupReversing(w, i, kept, count) ==
  IF i > Len(w.entities)
  THEN [w EXCEPT !.entities = kept, !.retOk = (count > 0)]
  ELSE LET a == w.entities[i] IN
       IF w.heap[a].pending
       THEN CleanupReversing(FreeEntity(w, a), i + 1, kept, count + 1)
       ELSE CleanupReversing(w, i + 1, <<a>> \o kept, count)

\* The std::remove_if of World::cleanup(): the predicate deallocates the
\* pending entities as it meets them and the others are kept in order.
RECURSIVE CleanupFrom(_, _, _, _)
CleanupFrom(w, i, kept, count) ==
  IF i > Len(w.entities)
  THEN [w EXCEPT !.entities = kept, !.retOk = (count > 0)]
  ELSE LET a == w.entities[i] IN
       IF w.heap[a].pending
       THEN CleanupFrom(FreeEntity(w, a), i + 1, kept, count + 1)
       ELSE CleanupFrom(w, i + 1, Append(kept, a), count)

\* World::cleanup()
Cleanup(w) == CleanupFrom(w, 1, <<>>, 0)

\* The loop without the test of isPendingDestroy(): it emits for every entity
RECURSIVE DestroyAllEmitting(_, _)
DestroyAllEmitting(w, i) ==
  IF i > Len(w.entities) THEN w
  ELSE LET a == w.entities[i] IN
       DestroyAllEmitting(FreeEntity(MarkAndEmit(w, a), a), i + 1)

\* The loop of World::reset() and of ~World() over the entities
RECURSIVE DestroyAllFrom(_, _)
DestroyAllFrom(w, i) ==
  IF i > Len(w.entities) THEN w
  ELSE LET a  == w.entities[i]
           w1 == IF w.heap[a].pending THEN w ELSE MarkAndEmit(w, a)
       IN DestroyAllFrom(FreeEntity(w1, a), i + 1)

\* World::reset without lastEntityId = 0
ResetKeepingIds(w) ==
  [DestroyAllFrom(w, 1) EXCEPT !.entities = <<>>]

\* World::reset()
Reset(w) ==
  [DestroyAllFrom(w, 1) EXCEPT !.entities = <<>>, !.lastEntityId = 0]

\* ------------------------------------------------------------ world: systems
\* EntitySystem::configure, unconfigure and tick of a client's system: the
\* model records the call.  lateTick: the system was ticked after unconfigure.
Configure(w, s) ==
  Note([w EXCEPT !.sysObj[s].nConfigure = @ + 1,
                 !.sysObj[s].regNo =
                    1 + Cardinality({x \in Systems : w.sysObj[x].nConfigure > 0})],
       "configure", "-", s, NoEvent)

Unconfigure(w, s) ==
  Note([w EXCEPT !.sysObj[s].nUnconfigure = @ + 1], "unconfigure", "-", s, NoEvent)

\* The callback of TestSystem::tick on the entity the loop yields:
\* pos->x += deltaTime; pos->y += deltaTime; rot->angle += deltaTime * 2.
\* A Position is the pair <<x, y>> and a Rotation the tuple <<angle>>.
TickBody(w, ent, p) ==
  LET pos == w.heap[ent].comps["Position"].data
      rot == w.heap[ent].comps["Rotation"].data
  IN [w EXCEPT !.heap[ent].comps["Position"].data = <<pos[1] + p, pos[2] + p>>,
               !.heap[ent].comps["Rotation"].data = <<rot[1] + p * 2>>]

\* The range-for loop of World::each<Position, Rotation>(viewFunc)
RECURSIVE TickLoop(_, _, _, _)
TickLoop(w, it, lastIndex, p) ==
  IF ~ItNotEnd(w, it, lastIndex) THEN w
  ELSE LET w1 == TickBody(w, ItGet(w, it), p) IN
       TickLoop(w1, ItNext(w1, it), lastIndex, p)

\* EntitySystem::tick of a client's system, which is TestSystem::tick
SystemTick(w, s, p) ==
  LET w1 == Note([w EXCEPT !.sysObj[s].lateTick = @ \/ w.sysObj[s].nUnconfigure > 0],
                 "tick", "-", s, [NoEvent EXCEPT !.num = p])
  IN TickLoop(w1, ViewBegin(w1, {"Position", "Rotation"}, FALSE), GetCount(w1), p)

\* World::registerSystem(system)
RegisterSystem(w, s) ==
  Configure([w EXCEPT !.systems = Append(@, s)], s)

\* World::unregisterSystem(system)
UnregisterSystem(w, s) ==
  Unconfigure([w EXCEPT !.systems = RemoveValue(@, s)], s)

\* An enableSystem that calls configure on the system it enables
EnableConfiguring(w, s) ==
  LET it == IndexOf(w.disabledSystems, s) IN
  IF it # 0
  THEN Configure([w EXCEPT !.disabledSystems = RemoveAt(@, it), !.systems = Append(@, s)], s)
  ELSE w

\* World::enableSystem(system)
EnableSystem(w, s) ==
  LET it == IndexOf(w.disabledSystems, s) IN
  IF it # 0
  THEN [w EXCEPT !.disabledSystems = RemoveAt(@, it), !.systems = Append(@, s)]
  ELSE w

\* World::disableSystem(system) without the test of std::find
DisableUnchecked(w, s) ==
  [w EXCEPT !.systems = RemoveValue(@, s), !.disabledSystems = Append(@, s)]

\* World::disableSystem(system)
DisableSystem(w, s) ==
  LET it == IndexOf(w.systems, s) IN
  IF it # 0
  THEN [w EXCEPT !.systems = RemoveAt(@, it), !.disabledSystems = Append(@, s)]
  ELSE w

RECURSIVE TickFrom(_, _, _)
TickFrom(w, i, p) ==
  IF i > Len(w.systems) THEN w
  ELSE TickFrom(SystemTick(w, w.systems[i], p), i + 1, p)

\* World::tick(data) as ECS_TICK_NO_CLEANUP makes it
TickNoCleanup(w, p) == TickFrom(w, 1, p)

\* World::tick(data), ECS_TICK_NO_CLEANUP not defined
Tick(w, p) == TickFrom(Cleanup(w), 1, p)

RECURSIVE UnconfigureFrom(_, _)
UnconfigureFrom(w, i) ==
  IF i > Len(w.systems) THEN w
  ELSE UnconfigureFrom(Unconfigure(w, w.systems[i]), i + 1)

RECURSIVE FreeSystemsFrom(_, _)
FreeSystemsFrom(w, i) ==
  IF i > Len(w.systems) THEN w
  ELSE FreeSystemsFrom(
         Note([w EXCEPT !.sysObj[w.systems[i]].freed = @ + 1],
              "freeSystem", "-", w.systems[i], NoEvent), i + 1)

\* World::~World()
Teardown(w) ==
  LET w1 == UnconfigureFrom(w, 1)
      w2 == DestroyAllFrom(w1, 1)
      w3 == FreeSystemsFrom(w2, 1)
  IN [w3 EXCEPT !.alive = FALSE]

\* -------------------------------------------------------- world: subscribers
\* World::subscribe<T>(subscriber)
Subscribe(w, key, sub) ==
  IF key \notin DOMAIN w.subscribers
  THEN [w EXCEPT !.subscribers =
          [k \in DOMAIN @ \cup {key} |-> IF k = key THEN <<sub>> ELSE @[k]]]
  ELSE [w EXCEPT !.subscribers[key] = Append(@, sub)]

EraseBuckets(subs, keys) == [k \in DOMAIN subs \ keys |-> subs[k]]

\* World::unsubscribe<T>(subscriber) without the erase of the emptied bucket
UnsubscribeKeepingBucket(w, key, sub) ==
  IF key \in DOMAIN w.subscribers
  THEN [w EXCEPT !.subscribers[key] = RemoveValue(@, sub)]
  ELSE w

\* World::unsubscribe<T>(subscriber)
Unsubscribe(w, key, sub) ==
  IF key \in DOMAIN w.subscribers
  THEN LET rest == RemoveValue(w.subscribers[key], sub) IN
       IF Len(rest) = 0
       THEN [w EXCEPT !.subscribers = EraseBuckets(@, {key})]
       ELSE [w EXCEPT !.subscribers[key] = rest]
  ELSE w

\* Entity::with<Types...>(view) that calls view before it looks at the
\* components
WithUnchecked(w, a, ts) ==
  LET valid == {i \in 1..Len(ts) : Get(w, a, ts[i])} IN
  [Note(w, "view", "-", 0, [Event("-", a, NoType) EXCEPT !.num = Cardinality(valid)])
     EXCEPT !.retOk = HasTypes(w, a, ts)]

\* Entity::with<Types...>(view): the call of view is the note "view", with
\* the number of valid handles among get<Types>()... it is passed
With(w, a, ts) ==
  IF ~HasTypes(w, a, ts) THEN [w EXCEPT !.retOk = FALSE]
  ELSE LET valid == {i \in 1..Len(ts) : Get(w, a, ts[i])} IN
       [Note(w, "view", "-", 0, [Event("-", a, NoType) EXCEPT !.num = Cardinality(valid)])
          EXCEPT !.retOk = TRUE]

\* The buckets whose copy kv.second is empty once the subscriber is removed
\* from it in World::unsubscribeAll: those that hold nobody else.
EmptiedBuckets(w, sub) ==
  {k \in DOMAIN w.subscribers : Len(RemoveValue(w.subscribers[k], sub)) = 0}

\* The sets of buckets a call of World::unsubscribeAll can erase.  The loop
\* erases the first emptied bucket it meets; that erase invalidates the
\* iterator of the running range-for (undefined behaviour), so the loop may
\* go on to the other buckets or end early.
UnsubscribeAllOutcomes(w, sub) ==
  {ks \in SUBSET EmptiedBuckets(w, sub) : ks = {} => EmptiedBuckets(w, sub) = {}}

\* World::unsubscribeAll(subscriber): `for (auto kv : subscribers)` copies
\* each pair, so the erase of the subscriber acts on the copy kv.second and
\* the bucket in the map keeps it; the map changes only by
\* subscribers.erase(kv.first).
UnsubscribeAll(w, sub, erased) ==
  [w EXCEPT !.subscribers = EraseBuckets(@, erased)]

\* ------------------------------------------------------------- the client
\* The range-for loop over a view (World::each and World::all, callback or
\* view form): the iterator of the loop, the end it is compared with, and
\* the entity the body is running on.  yielded, body and marked record the
\* loop: the entities yielded so far, the kinds of calls its body made, and
\* the entities at positions not yet visited that its body destroyed with
\* immediate = false; gained and lost, those it made match or not match.
NoScan ==
  [active |-> FALSE, done |-> FALSE, types |-> {}, incl |-> FALSE,
   index |-> 0, bIsEnd |-> FALSE, lastIndex |-> 0, cur |-> NullPtr,
   yielded |-> <<>>, body |-> {}, marked |-> {}, gained |-> {}, lost |-> {}]

NoCall ==
  [op |-> "-", ent |-> NullPtr, t |-> NoType, imm |-> FALSE, val |-> 0,
   sub |-> "-", key |-> EvKey("-", NoType), sys |-> 0, pre |-> FALSE,
   ret |-> NullPtr, retOk |-> FALSE, types |-> <<>>]

\* World::createWorld(): World(alloc)
Init ==
  /\ entities = <<>>
  /\ heap = [a \in Addrs |-> FreeSlot]
  /\ lastEntityId = 0
  /\ systems = <<>>
  /\ disabledSystems = <<>>
  /\ subscribers = [k \in {} |-> <<>>]
  /\ sysObj = [s \in Systems |-> NewSystem]
  /\ alive = TRUE
  /\ log = <<>>
  /\ lastCall = NoCall
  /\ scan = NoScan

\* The call returns: the world is as the operator left it.
Commit(w, call) ==
  /\ entities' = w.entities
  /\ heap' = w.heap
  /\ lastEntityId' = w.lastEntityId
  /\ systems' = w.systems
  /\ disabledSystems' = w.disabledSystems
  /\ subscribers' = w.subscribers
  /\ sysObj' = w.sysObj
  /\ alive' = w.alive
  /\ log' = w.log
  /\ lastCall' = [call EXCEPT !.ret = w.ret, !.retOk = w.retOk]

\* A call made by the body of the running loop is recorded in the loop; a
\* call made after the loop has ended forgets the loop.
BodyKind(op) ==
  IF op \in {"create", "destroyDeferred"} THEN {op}
  ELSE IF op = "nop" THEN {} ELSE {"other"}

\* The entities the client holds a pointer to and may still use
Live == {a \in Addrs : heap[a].alloc}
DefaultOrd == <<"Position", "Rotation">>

\* What the loop in progress records of a call its body makes.  gained and
\* lost are the entities at positions not yet visited that the body made
\* match the types of the loop by assigning the one they missed, or made
\* not match by removing one they had.
ScanSeesComp(op, a, t) ==
  LET w         == Cur(DefaultOrd)
      ahead     == IndexOf(entities, a) > scan.index + 1
      completes == /\ op = "assign" /\ ahead /\ t \in scan.types
                   /\ ~HasAll(w, a, scan.types)
                   /\ HasAll(w, a, scan.types \ {t})
      breaks    == /\ op = "remove" /\ ahead /\ t \in scan.types
                   /\ HasAll(w, a, scan.types)
  IN
  scan' = IF scan.active
          THEN [scan EXCEPT
                  !.body = @ \cup BodyKind(op),
                  !.marked = IF op = "destroyDeferred" /\ ahead
                             THEN @ \cup {a} ELSE @,
                  !.gained = IF completes THEN @ \cup {a}
                             ELSE IF breaks THEN @ \ {a} ELSE @,
                  !.lost = IF breaks THEN @ \cup {a}
                           ELSE IF completes THEN @ \ {a} ELSE @]
          ELSE NoScan

ScanSeesAt(op, a) == ScanSeesComp(op, a, NoType)

ScanSees(op) == ScanSeesAt(op, NullPtr)

\* world->create()
DoCreate ==
  /\ alive /\ \E a \in Addrs : ~heap[a].used
  /\ Commit(Create(Cur(DefaultOrd)), [NoCall EXCEPT !.op = "create"])
  /\ ScanSees("create")

\* world->destroy(ent, immediate)
DoDestroy(a, immediate) ==
  /\ alive
  /\ \E ord \in Orders :
       Commit(Destroy(Cur(ord), a, immediate),
              [NoCall EXCEPT !.op = "destroy", !.ent = a, !.imm = immediate,
                             !.pre = (a # NullPtr /\ heap[a].pending)])
  /\ ScanSeesAt(IF a = NullPtr \/ (heap[a].pending /\ ~immediate) THEN "nop"
                ELSE IF immediate THEN "destroyImmediate" ELSE "destroyDeferred", a)

\* world->cleanup()
DoCleanup ==
  /\ alive
  /\ \E ord \in Orders :
       Commit(Cleanup(Cur(ord)),
              [NoCall EXCEPT !.op = "cleanup",
                             !.pre = \E i \in 1..Len(entities) : heap[entities[i]].pending])
  /\ ScanSees("cleanup")

\* world->reset()
DoReset ==
  /\ alive
  /\ \E ord \in Orders :
       Commit(Reset(Cur(ord)), [NoCall EXCEPT !.op = "reset"])
  /\ ScanSees("reset")

\* world->getById(id)
DoGetById(id) ==
  /\ alive
  /\ Commit([Cur(DefaultOrd) EXCEPT !.ret = GetById(Cur(DefaultOrd), id)],
            [NoCall EXCEPT !.op = "getById", !.val = id])
  /\ ScanSees("nop")

\* world->getByIndex(idx)
DoGetByIndex(idx) ==
  /\ alive
  /\ Commit([Cur(DefaultOrd) EXCEPT !.ret = GetByIndex(Cur(DefaultOrd), idx)],
            [NoCall EXCEPT !.op = "getByIndex", !.val = idx])
  /\ ScanSees("nop")

\* world->tick(p)
DoTick(p) ==
  /\ alive
  /\ \E ord \in Orders :
       Commit(Tick(Cur(ord), p), [NoCall EXCEPT !.op = "tick", !.val = p])
  /\ ScanSees("tick")

\* ------------------------------------------------- specification: entities
\* world->destroyWorld()
DoDestroyWorld ==
  /\ alive
  /\ \E ord \in Orders :
       Commit(Teardown(Cur(ord)), [NoCall EXCEPT !.op = "destroyWorld"])
  /\ ScanSees("destroyWorld")

NextEntities ==
  \/ DoCreate
  \/ \E a \in Live \cup {NullPtr}, immediate \in BOOLEAN : DoDestroy(a, immediate)
  \/ DoCleanup
  \/ DoReset
  \/ \E id \in 0..(MaxEntities + 1) : DoGetById(id)
  \/ \E idx \in 0..MaxEntities : DoGetByIndex(idx)
  \/ \E p \in Payloads : DoTick(p)
  \/ DoDestroyWorld

Spec == Init /\ [][NextEntities]_vars

\* -------------------------------------------------- specification: systems
\* world->registerSystem(system), with a system object not registered before
DoRegisterSystem(s) ==
  /\ alive /\ sysObj[s].nConfigure = 0
  /\ Commit(RegisterSystem(Cur(DefaultOrd), s),
            [NoCall EXCEPT !.op = "registerSystem", !.sys = s])
  /\ ScanSees("registerSystem")

\* world->unregisterSystem(system), with a system the client registered and
\* has not unregistered
DoUnregisterSystem(s) ==
  /\ alive /\ sysObj[s].nConfigure = 1 /\ sysObj[s].nUnconfigure = 0
  /\ Commit(UnregisterSystem(Cur(DefaultOrd), s),
            [NoCall EXCEPT !.op = "unregisterSystem", !.sys = s,
                           !.pre = InSeq(disabledSystems, s)])
  /\ ScanSees("unregisterSystem")

\* world->enableSystem(system)
DoEnableSystem(s) ==
  /\ alive
  /\ Commit(EnableSystem(Cur(DefaultOrd), s),
            [NoCall EXCEPT !.op = "enableSystem", !.sys = s,
                           !.pre = InSeq(disabledSystems, s)])
  /\ ScanSees("enableSystem")

\* world->disableSystem(system)
DoDisableSystem(s) ==
  /\ alive
  /\ Commit(DisableSystem(Cur(DefaultOrd), s),
            [NoCall EXCEPT !.op = "disableSystem", !.sys = s,
                           !.pre = InSeq(systems, s)])
  /\ ScanSees("disableSystem")

NextSystems ==
  \/ \E s \in Systems : DoRegisterSystem(s)
  \/ \E s \in Systems : DoUnregisterSystem(s)
  \/ \E s \in Systems : DoEnableSystem(s)
  \/ \E s \in Systems : DoDisableSystem(s)
  \/ \E p \in Payloads : DoTick(p)
  \/ DoDestroyWorld

SpecSystems == Init /\ [][NextSystems]_vars

\* ------------------------------------------------ specification: event bus
\* world->subscribe<T>(subscriber)
DoSubscribe(key, sub) ==
  /\ alive
  /\ key \in DOMAIN subscribers => Len(subscribers[key]) < MaxBucket
  /\ Commit(Subscribe(Cur(DefaultOrd), key, sub),
            [NoCall EXCEPT !.op = "subscribe", !.key = key, !.sub = sub])
  /\ ScanSees("subscribe")

\* world->unsubscribe<T>(subscriber)
DoUnsubscribe(key, sub) ==
  /\ alive
  /\ Commit(Unsubscribe(Cur(DefaultOrd), key, sub),
            [NoCall EXCEPT !.op = "unsubscribe", !.key = key, !.sub = sub,
                           !.pre = key \in DOMAIN subscribers])
  /\ ScanSees("unsubscribe")

\* world->unsubscribeAll(subscriber)
DoUnsubscribeAll(sub) ==
  /\ alive
  /\ \E erased \in UnsubscribeAllOutcomes(Cur(DefaultOrd), sub) :
       Commit(UnsubscribeAll(Cur(DefaultOrd), sub, erased),
              [NoCall EXCEPT !.op = "unsubscribeAll", !.sub = sub])
  /\ ScanSees("unsubscribeAll")

\* world->emit<SomeEvent>({ num })
DoEmitSomeEvent(num) ==
  /\ alive
  /\ Commit(Emit(Cur(DefaultOrd), SomeEvent(num)),
            [NoCall EXCEPT !.op = "emit", !.key = EvKey("SomeEvent", NoType),
                           !.val = num])
  /\ ScanSees("emit")

\* The event types and the subscribers of this specification
BusKeys == {EvKey("SomeEvent", NoType), EvKey("OnEntityCreated", NoType)}
BusSubscribers == {"logA", "logB"}

NextBus ==
  \/ \E key \in BusKeys, sub \in BusSubscribers : DoSubscribe(key, sub)
  \/ \E key \in BusKeys, sub \in BusSubscribers : DoUnsubscribe(key, sub)
  \/ \E sub \in BusSubscribers : DoUnsubscribeAll(sub)
  \/ DoEmitSomeEvent(1)

SpecBus == Init /\ [][NextBus]_vars

\* ---------------------------------------------------- specification: views
\* ent->assign<T>(v)
DoAssign(a, t, v) ==
  /\ alive
  /\ Commit(Assign(Cur(DefaultOrd), a, t, v),
            [NoCall EXCEPT !.op = "assign", !.ent = a, !.t = t, !.val = v,
                           !.pre = Has(Cur(DefaultOrd), a, t)])
  /\ ScanSeesComp("assign", a, t)

\* ent->remove<T>()
DoRemove(a, t) ==
  /\ alive
  /\ Commit(Remove(Cur(DefaultOrd), a, t),
            [NoCall EXCEPT !.op = "remove", !.ent = a, !.t = t,
                           !.pre = Has(Cur(DefaultOrd), a, t)])
  /\ ScanSeesComp(IF Has(Cur(DefaultOrd), a, t) THEN "remove" ELSE "nop", a, t)

\* The loop tests it != end and, if so, runs its body on *it.
LoopTest(w, it, sc) ==
  IF ItNotEnd(w, it, sc.lastIndex)
  THEN [sc EXCEPT !.active = TRUE, !.done = FALSE,
                  !.index = it.index, !.bIsEnd = it.bIsEnd,
                  !.cur = ItGet(w, it),
                  !.yielded = Append(@, ItGet(w, it))]
  ELSE [sc EXCEPT !.active = FALSE, !.done = TRUE,
                  !.index = it.index, !.bIsEnd = it.bIsEnd,
                  !.cur = NullPtr]

\* for (auto* ent : world->each<Types...>(incl)), up to the first run of the
\* body; there is one loop at a time
ScanBegin(types, incl) ==
  /\ alive /\ ~scan.active
  /\ LET w == Cur(DefaultOrd) IN
     scan' = LoopTest(w, ViewBegin(w, types, incl),
                      [NoScan EXCEPT !.types = types, !.incl = incl,
                                     !.lastIndex = GetCount(w)])
  /\ UNCHANGED <<entities, heap, lastEntityId, systems, disabledSystems,
                 subscribers, sysObj, alive>>
  /\ log' = <<>>
  /\ lastCall' = [NoCall EXCEPT !.op = "scanBegin"]

\* The body returns: ++it, then the test and the next run of the body
ScanNext ==
  /\ alive /\ scan.active
  /\ LET w  == Cur(DefaultOrd)
         it == [index |-> scan.index, bIsEnd |-> scan.bIsEnd,
                types |-> scan.types, incl |-> scan.incl]
     IN scan' = LoopTest(w, ItNext(w, it), scan)
  /\ UNCHANGED <<entities, heap, lastEntityId, systems, disabledSystems,
                 subscribers, sysObj, alive>>
  /\ log' = <<>>
  /\ lastCall' = [NoCall EXCEPT !.op = "scanNext"]

\* The component sets a view is asked for: all(), each<Position>(),
\* each<Position, Rotation>()
ViewTypes == {{}, {"Position"}, {"Position", "Rotation"}}

\* TestSystem::configure, as far as SomeEvent goes
DoSubscribeTestSystem ==
  /\ EvKey("SomeEvent", NoType) \notin DOMAIN subscribers
  /\ ~scan.active
  /\ DoSubscribe(EvKey("SomeEvent", NoType), "testSystem")

\* The client of this specification builds a world, runs loops over it
\* whose bodies call destroy(ent) and nothing else, and, when it is the
\* sample, subscribes the TestSystem to SomeEvent before it creates an
\* entity and emits SomeEvent instead of running loops of its own.
Sample == EvKey("SomeEvent", NoType) \in DOMAIN subscribers

NextViews ==
  \/ ~scan.active /\ DoCreate
  \/ ~scan.active /\ \E a \in Live, t \in Types : DoAssign(a, t, 1)
  \/ \E a \in Live : DoDestroy(a, FALSE)
  \/ ~scan.active /\ \E a \in Live : DoDestroy(a, TRUE)
  \/ ~scan.active /\ DoCleanup
  \/ ~Sample /\ \E types \in ViewTypes, incl \in BOOLEAN : ScanBegin(types, incl)
  \/ ScanNext
  \/ lastEntityId = 0 /\ DoSubscribeTestSystem
  \/ Sample /\ \E num \in 1..MaxEntities : DoEmitSomeEvent(num)

SpecViews == Init /\ [][NextViews]_vars

\* ---------------------------------------------------- specification: loops
\* The component sets of the loops of this specification
LoopTypes == {{"Position"}, {"Position", "Rotation"}}

\* The client of this specification runs loops over each<Types...>() whose
\* bodies create entities and assign and remove components; it builds the
\* world the loop runs over with create and assign.
NextLoops ==
  \/ DoCreate
  \/ \E a \in Live, t \in Types : DoAssign(a, t, 1)
  \/ scan.active /\ \E a \in Live, t \in Types : DoRemove(a, t)
  \/ \E types \in LoopTypes : ScanBegin(types, FALSE)
  \/ ScanNext

SpecLoops == Init /\ [][NextLoops]_vars

\* -------------------------------------------------- specification: queries
\* The lists of types a client writes in has<...>() and with<...>()
TypeLists == UNION {[1..n -> Types] : n \in 1..2}

\* ent->has<Types...>()
DoHas(a, ts) ==
  /\ alive
  /\ Commit([Cur(DefaultOrd) EXCEPT !.retOk = HasTypes(Cur(DefaultOrd), a, ts)],
            [NoCall EXCEPT !.op = "has", !.ent = a, !.types = ts])
  /\ ScanSees("nop")

\* ent->get<T>()
DoGet(a, t) ==
  /\ alive
  /\ Commit([Cur(DefaultOrd) EXCEPT !.retOk = Get(Cur(DefaultOrd), a, t)],
            [NoCall EXCEPT !.op = "get", !.ent = a, !.t = t])
  /\ ScanSees("nop")

\* ent->with<Types...>(view)
DoWith(a, ts) ==
  /\ alive
  /\ Commit(With(Cur(DefaultOrd), a, ts),
            [NoCall EXCEPT !.op = "with", !.ent = a, !.types = ts])
  /\ ScanSees("nop")

\* The client of this specification creates entities, assigns and removes
\* components and asks the entities what they have.
NextQueries ==
  \/ Cardinality({a \in Addrs : heap[a].used}) < MaxOwners /\ DoCreate
  \/ \E a \in Live, t \in Types : DoAssign(a, t, 1)
  \/ \E a \in Live, t \in Types : DoRemove(a, t)
  \/ \E a \in Live, ts \in TypeLists : DoHas(a, ts)
  \/ \E a \in Live, t \in Types : DoGet(a, t)
  \/ \E a \in Live, ts \in TypeLists : DoWith(a, ts)

SpecQueries == Init /\ [][NextQueries]_vars

\* ----------------------------------------------- specification: components
\* ent->removeAll()
DoRemoveAll(a) ==
  /\ alive
  /\ \E ord \in Orders :
       Commit(RemoveAll(Cur(ord), a),
              [NoCall EXCEPT !.op = "removeAll", !.ent = a])
  /\ ScanSees("removeAll")

\* world->subscribe<Events::OnComponentRemoved<Position>>(cascade), once
DoSubscribeCascade ==
  /\ EvKey("OnComponentRemoved", "Position") \notin DOMAIN subscribers
  /\ DoSubscribe(EvKey("OnComponentRemoved", "Position"), "cascade")

\* world->subscribe<Events::OnEntityDestroyed>(logA), once
DoSubscribeLog ==
  /\ EvKey("OnEntityDestroyed", NoType) \notin DOMAIN subscribers
  /\ DoSubscribe(EvKey("OnEntityDestroyed", NoType), "logA")

NextComponents ==
  \/ Cardinality({a \in Addrs : heap[a].used}) < MaxOwners /\ DoCreate
  \/ \E a \in Live, t \in Types, v \in Values : DoAssign(a, t, v)
  \/ \E a \in Live, t \in Types : DoRemove(a, t)
  \/ \E a \in Live : DoRemoveAll(a)
  \/ \E a \in Live, immediate \in BOOLEAN : DoDestroy(a, immediate)
  \/ DoCleanup
  \/ DoReset
  \/ DoDestroyWorld
  \/ DoSubscribeCascade
  \/ DoSubscribeLog

SpecComponents == Init /\ [][NextComponents]_vars

\* ---------------------------------------- specification: the sample's world
\* The arguments of the sample: assign<Position>(0.f, 0.f), assign<Rotation>(0.f)
InitialData(t) == IF t = "Position" THEN <<0, 0>> ELSE <<0>>

\* The systems that are active add p each: the tick keeps every coordinate
\* within MaxCoord and every angle within twice that.
TickInRange(p) ==
  \A a \in Live :
    /\ Has(Cur(DefaultOrd), a, "Position") =>
         \A k \in 1..2 : heap[a].comps["Position"].data[k] + p * Len(systems) <= MaxCoord
    /\ Has(Cur(DefaultOrd), a, "Rotation") =>
         heap[a].comps["Rotation"].data[1] + 2 * p * Len(systems) <= 2 * MaxCoord

NextWorld ==
  \/ \E s \in Systems : DoRegisterSystem(s)
  \/ \E s \in Systems : DoDisableSystem(s)
  \/ \E s \in Systems : DoEnableSystem(s)
  \/ Cardinality({a \in Addrs : heap[a].used}) < MaxOwners /\ DoCreate
  \/ \E a \in Live, t \in Types : DoAssign(a, t, InitialData(t))
  \/ \E a \in Live : DoDestroy(a, FALSE)
  \/ \E p \in Payloads : TickInRange(p) /\ DoTick(p)
  \/ DoDestroyWorld

SpecWorld == Init /\ [][NextWorld]_vars

\* --------------------------------------------------- specification: guards
\* The client of this specification calls destroy, enableSystem and
\* disableSystem with whatever it holds: a null pointer, an entity already
\* destroyed, a system that is not registered, not disabled or not active.
NextGuards ==
  \/ Cardinality({a \in Addrs : heap[a].used}) < MaxOwners /\ DoCreate
  \/ \E a \in Live \cup {NullPtr}, immediate \in BOOLEAN : DoDestroy(a, immediate)
  \/ \E s \in Systems : DoRegisterSystem(s)
  \/ \E s \in Systems : DoEnableSystem(s)
  \/ \E s \in Systems : DoDisableSystem(s)
  \/ DoSubscribeLog

SpecGuards == Init /\ [][NextGuards]_vars

\* --------------------------------------------------- specification: reaper
\* world->subscribe<Events::OnEntityDestroyed>(reaper), once; the receive
\* of the reaper calls world->destroy(event.entity, true)
DoSubscribeReaper ==
  /\ EvKey("OnEntityDestroyed", NoType) \notin DOMAIN subscribers
  /\ DoSubscribe(EvKey("OnEntityDestroyed", NoType), "reaper")

\* The client of this specification creates and destroys entities, with or
\* without a subscriber of OnEntityDestroyed that destroys the entity of
\* the event at once.
NextReaper ==
  \/ DoCreate
  \/ \E a \in Live, immediate \in BOOLEAN : DoDestroy(a, immediate)
  \/ DoCleanup
  \/ DoSubscribeReaper

SpecReaper == Init /\ [][NextReaper]_vars

\* --------------------------------------------------- specification: nested
\* The event types and the subscribers of this specification: the
\* TestSystem, whose receive of SomeEvent destroys an entity and so emits
\* OnEntityDestroyed, and a subscriber that only prints
NestedKeys == {EvKey("SomeEvent", NoType), EvKey("OnEntityDestroyed", NoType)}
NestedSubscribers == {"testSystem", "logA"}

NextNested ==
  \/ Cardinality({a \in Addrs : heap[a].used}) < MaxOwners /\ DoCreate
  \/ \E key \in NestedKeys, sub \in NestedSubscribers : DoSubscribe(key, sub)
  \/ \E num \in 1..MaxOwners : DoEmitSomeEvent(num)

SpecNested == Init /\ [][NextNested]_vars

\* ---------------------------------------------------- specification: scans
\* The client of this specification runs loops over each<Position>() and
\* all(true) whose bodies destroy entities, at once or not, and assign and
\* remove components, and create none; it builds the world with create and
\* assign between loops.  A body returns, so the loop gets to advance.
NextScans ==
  \/ ~scan.active /\ DoCreate
  \/ \E a \in Live : DoAssign(a, "Position", 1)
  \/ scan.active /\ \E a \in Live : DoRemove(a, "Position")
  \/ scan.active /\ \E a \in Live, immediate \in BOOLEAN : DoDestroy(a, immediate)
  \/ ScanBegin({}, TRUE)
  \/ ScanBegin({"Position"}, FALSE)
  \/ ScanNext

SpecScans == Init /\ [][NextScans]_vars /\ WF_vars(ScanNext)

\* ------------------------------------------------------------------ claims
World == Cur(DefaultOrd)
Pending == {a \in Live : heap[a].pending}

\* The entries of the log of the last call that satisfy Test
CountIn(l, Test(_)) == Cardinality({i \in 1..Len(l) : Test(l[i])})
LogCount(Test(_)) == CountIn(log, Test)
NotesOf(k, a) == LogCount(LAMBDA x : x.k = k /\ x.e.ent = a)
EmitsOf(ev, a) ==
  LogCount(LAMBDA x : x.k = "emit" /\ x.e.ev = ev /\ x.e.ent = a)

\* The program state, without the record of the last call
progVars == <<entities, heap, lastEntityId, systems, disabledSystems,
              subscribers, sysObj, alive>>

\* C1: a deferred destroy of a live entity emits exactly one
\* OnEntityDestroyed and leaves the entity in the sequence, where getById
\* finds it; every further deferred destroy of it changes nothing and emits
\* nothing; the next cleanup() removes and deallocates it exactly once, after
\* which getById of its id is null.
C1_FirstDestroy(a) ==
  (lastCall'.op = "destroy" /\ lastCall'.ent = a /\ ~lastCall'.imm /\ ~heap[a].pending)
    => /\ heap'[a].evDestroyed = 1
       /\ EmitsOf("OnEntityDestroyed", a)' = 1
       /\ heap'[a].pending /\ heap'[a].alloc
       /\ NotesOf("free", a)' = 0
       /\ entities' = entities
       /\ GetById(World', heap[a].id) = a

C1_LaterDestroy(a) ==
  (lastCall'.op = "destroy" /\ lastCall'.ent = a /\ ~lastCall'.imm /\ heap[a].pending)
    => /\ UNCHANGED progVars
       /\ log' = <<>>

C1_Cleanup(a) ==
  (lastCall'.op = "cleanup" /\ a \in Pending)
    => /\ ~InSeq(entities', a)
       /\ ~heap'[a].alloc
       /\ NotesOf("free", a)' = 1
       /\ LogCount(LAMBDA x : x.k = "free" /\ x.e.ent = a /\ x.snap.obj.alloc)' = 1
       /\ EmitsOf("OnEntityDestroyed", a)' = 0
       /\ GetById(World', heap[a].id) = NullPtr

C1_Queued ==
  \A a \in Pending :
    /\ InSeq(entities, a)
    /\ GetById(World, heap[a].id) = a
    /\ heap[a].evDestroyed = 1

C1_DeferredDestroyIdempotent ==
  /\ []C1_Queued
  /\ [][\A a \in Live : C1_FirstDestroy(a) /\ C1_LaterDestroy(a) /\ C1_Cleanup(a)]_vars

\* C1's case: a second deferred destroy of an entity that is queued
C1_Witness ==
  /\ lastCall.op = "destroy" /\ ~lastCall.imm /\ lastCall.pre
  /\ lastCall.ent \in Pending
  /\ heap[lastCall.ent].evDestroyed = 1

\* C2: configure is called exactly once on every system, at registerSystem
\* and before any of its ticks; unconfigure is called exactly once, at
\* unregisterSystem or at world teardown; after unconfigure the system is
\* never ticked again.
C2_SystemLifecycle ==
  \A s \in Systems :
    /\ sysObj[s].nConfigure <= 1
    /\ sysObj[s].nUnconfigure <= 1
    /\ sysObj[s].nUnconfigure <= sysObj[s].nConfigure
    /\ (InSeq(systems, s) \/ InSeq(disabledSystems, s)) => sysObj[s].nConfigure = 1
    /\ (lastCall.op = "unregisterSystem" /\ lastCall.sys = s) => sysObj[s].nUnconfigure = 1
    /\ (~alive /\ sysObj[s].nConfigure = 1) => sysObj[s].nUnconfigure = 1
    /\ ~sysObj[s].lateTick

\* The systems the last call ticked, in the order of the calls
Ticked == SelectSeq(log, LAMBDA x : x.k = "tick")

\* C4: every tick calls the active systems in registration order.
C4_TickInRegistrationOrder ==
  lastCall.op = "tick" =>
    \A i, j \in 1..Len(Ticked) :
      i < j => sysObj[Ticked[i].sys].regNo < sysObj[Ticked[j].sys].regNo

\* The bucket of an event type, empty when the map has none
Bucket(subs, key) == IF key \in DOMAIN subs THEN subs[key] ELSE <<>>

\* C3: after unsubscribeAll(s), s is in no bucket of any event type, whoever
\* else shares the buckets, and the entries and the order of the other
\* subscribers are unchanged: every bucket is what it was without s.
C3_UnsubscribeAllRemoves ==
  [][lastCall'.op = "unsubscribeAll" =>
       \A key \in EvKeys :
         Bucket(subscribers', key) = RemoveValue(Bucket(subscribers, key), lastCall'.sub)]_vars

\* The entity a view with the parameters of the running loop yields
MatchesIn(w, sc, a) ==
  /\ HasAll(w, a, sc.types)
  /\ sc.incl \/ ~w.heap[a].pending
Matches(a) == MatchesIn(World, scan, a)

LoopStep == lastCall.op \in {"scanBegin", "scanNext"}

\* C5: a loop run with includePendingDestroy = false never yields an entity
\* that is pending destroy, and so never one at a position not yet visited
\* that its body destroyed; a loop run with true yields the pending entities
\* too; the loop of the sample's SomeEvent handler never reaches its second
\* branch on an entity that is pending destroy.
C5_YieldsNoPending ==
  /\ (LoopStep /\ scan.active /\ ~scan.incl) => ~heap[scan.cur].pending
  /\ ~scan.incl => \A a \in scan.marked : ~InSeq(scan.yielded, a)
  /\ (scan.done /\ scan.incl /\ scan.body \subseteq {"destroyDeferred"})
       => scan.yielded = SelectSeq(entities, LAMBDA a : HasAll(World, a, scan.types))
  /\ (lastCall.op = "emit" /\ Sample)
       => /\ \A i \in 1..Len(log) : log[i].k = "woah" => ~log[i].snap.obj.pending
          /\ LogCount(LAMBDA x : x.k = "emit" /\ x.e.ev = "OnEntityDestroyed") > 0
               => LogCount(LAMBDA x : x.k = "woah") = 0

\* C5's case: a loop that skipped an entity its body had destroyed
C5_Witness ==
  /\ scan.done /\ ~scan.incl /\ Len(scan.yielded) >= 1
  /\ \E a \in scan.marked :
       /\ HasAll(World, a, scan.types) /\ heap[a].pending
       /\ ~InSeq(scan.yielded, a)

\* C6: a loop whose body changes nothing yields exactly the entities that
\* have all the types asked for (and are not pending destroy, unless asked
\* for), each once, in the order of the sequence, the entity at position 0
\* included; over an empty world it yields nothing.
C6_YieldsExactlyMatching ==
  /\ (scan.done /\ scan.body = {})
       => scan.yielded = SelectSeq(entities, Matches)
  /\ (scan.active /\ scan.body = {})
       => scan.yielded = SelectSeq(SubSeq(entities, 1, scan.index + 1), Matches)

\* C6's case: a finished loop that yielded the entity at position 0 and
\* another, and left one out
C6_Witness ==
  /\ scan.done /\ scan.body = {} /\ scan.types # {}
  /\ Len(scan.yielded) >= 2 /\ Len(scan.yielded) < Len(entities)
  /\ scan.yielded[1] = entities[1]

\* The positions (from 0) a loop step passes over without yielding
Passed ==
  {i \in 0..(Len(entities) - 1) :
     /\ i > (IF lastCall'.op = "scanNext" THEN scan.index ELSE -1)
     /\ scan'.active => i < scan'.index}

C7_BodyStep ==
  (scan.active /\ lastCall'.op = "destroy" /\ ~lastCall'.imm)
    => /\ entities' = entities
       /\ GetCount(World') = GetCount(World)
       /\ scan'.index = scan.index /\ scan'.cur = scan.cur

C7_LoopStep ==
  (lastCall'.op \in {"scanBegin", "scanNext"} /\ scan'.body \subseteq {"destroyDeferred"})
    => /\ \A i \in Passed : ~MatchesIn(World', scan', entities'[i + 1])
       /\ scan'.active =>
            /\ lastCall'.op = "scanNext" => scan'.index > scan.index
            /\ scan'.index < Len(entities)
            /\ scan'.cur = entities[scan'.index + 1]
            /\ MatchesIn(World', scan', scan'.cur)
            /\ ~InSeq(scan.yielded, scan'.cur) \/ lastCall'.op = "scanBegin"

\* C7: while the body of a loop only calls destroy with immediate = false,
\* the sequence and the count do not change, and the loop neither passes
\* over an entity it is to yield nor yields one twice.
C7_DeferredDestroyKeepsPositions ==
  [][C7_BodyStep /\ C7_LoopStep]_vars

\* C7's case: a finished loop over three entities whose body destroyed one
C7_Witness ==
  /\ scan.done /\ "destroyDeferred" \in scan.body
  /\ Len(scan.yielded) >= 2 /\ Len(entities) = 3
  /\ \E a \in Pending : InSeq(scan.yielded, a)

\* The state of the container a note of the log is about, when it was made
ContainerAt(x) == x.snap.obj.comps[x.e.t]

\* C8: in every call, handlers included, OnComponentRemoved<T> is emitted
\* for a container that is still allocated and for the first time, a
\* container is deallocated once and after its one event.
C8_RemovedOnceBeforeRelease ==
  \A i \in 1..Len(log) :
    /\ (log[i].k = "emit" /\ log[i].e.ev = "OnComponentRemoved")
         => ContainerAt(log[i]).st = "live" /\ ContainerAt(log[i]).evRemoved = 1
    /\ log[i].k = "release"
         => ContainerAt(log[i]).st = "live" /\ ContainerAt(log[i]).evRemoved = 1

ComponentCount(w, a) == Cardinality({t \in Types : Has(w, a, t)})

C9_AssignStep ==
  lastCall'.op = "assign" =>
    LET a == lastCall'.ent
        t == lastCall'.t
    IN /\ heap'[a].comps[t].st = "live"
       /\ heap'[a].comps[t].data = lastCall'.val
       /\ lastCall'.retOk
       /\ CountIn(log', LAMBDA x : x.k = "emit" /\ x.e.ev = "OnComponentAssigned") = 1
       /\ CountIn(log', LAMBDA x : x.k = "emit" /\ x.e = Event("OnComponentAssigned", a, t)) = 1
       /\ \A u \in Types \ {t} : heap'[a].comps[u] = heap[a].comps[u]
       /\ \A b \in Addrs \ {a} : heap'[b] = heap[b]
       /\ Has(World, a, t) =>
            /\ ComponentCount(World', a) = ComponentCount(World, a)
            /\ CountIn(log', LAMBDA x : x.k \in {"alloc", "release"}) = 0
       /\ ~Has(World, a, t) =>
            /\ ComponentCount(World', a) = ComponentCount(World, a) + 1
            /\ CountIn(log', LAMBDA x : x.k = "alloc" /\ x.e.ent = a /\ x.e.t = t) = 1

\* C9: a container of T is allocated only for an entity that holds no T, so
\* an entity holds at most one; assign<T>(b) on an entity that has T writes b
\* into the container it has, allocates and deallocates nothing and leaves
\* the number of components as it was; every assign<T> emits exactly one
\* OnComponentAssigned<T> and returns a valid handle that reads b.
C9_AssignReplaces ==
  /\ [](\A i \in 1..Len(log) : log[i].k = "alloc" => ContainerAt(log[i]).st = "none")
  /\ [][C9_AssignStep]_vars

\* C9's case: assign on an entity that already had the component, next to
\* another component
C9_Witness ==
  /\ lastCall.op = "assign" /\ lastCall.pre /\ lastCall.val = 2
  /\ ComponentCount(World, lastCall.ent) = 2
  /\ heap[lastCall.ent].comps[lastCall.t].data = 2

C10_RemoveStep ==
  lastCall'.op = "remove" =>
    LET a == lastCall'.ent
        t == lastCall'.t
    IN /\ lastCall'.retOk = Has(World, a, t)
       /\ ~Has(World', a, t)
       /\ Has(World, a, t) =>
            /\ CountIn(log', LAMBDA x : x.k = "emit" /\ x.e = Event("OnComponentRemoved", a, t)) = 1
            /\ \A i \in 1..Len(log') :
                 log'[i].e.ev = "OnComponentRemoved" =>
                   /\ ContainerAt(log'[i]).st = "live"
                   /\ ContainerAt(log'[i]).data = heap[log'[i].e.ent].comps[log'[i].e.t].data
                   /\ \A j \in 1..(i - 1) :
                        ~(log'[j].k = "release" /\ log'[j].e.ent = log'[i].e.ent
                                                /\ log'[j].e.t = log'[i].e.t)
       /\ ~Has(World, a, t) => (log' = <<>> /\ UNCHANGED progVars)

C11_UnregisterRemoves ==
  [][lastCall'.op = "unregisterSystem" =>
       /\ ~InSeq(systems', lastCall'.sys)
       /\ ~InSeq(disabledSystems', lastCall'.sys)
       /\ CountIn(log', LAMBDA x : x.k = "unconfigure" /\ x.sys = lastCall'.sys) = 1
       /\ CountIn(log', LAMBDA x : x.k = "unconfigure") = 1]_vars

\* C12: the teardown of the world calls unconfigure on every system in the
\* active or the disabled list once and deallocates it once, and calls every
\* unconfigure before it emits an OnEntityDestroyed or deallocates an entity.
C12_TeardownReleasesSystems ==
  [][lastCall'.op = "destroyWorld" =>
       /\ \A s \in Systems :
            (InSeq(systems, s) \/ InSeq(disabledSystems, s)) =>
              /\ CountIn(log', LAMBDA x : x.k = "unconfigure" /\ x.sys = s) = 1
              /\ CountIn(log', LAMBDA x : x.k = "freeSystem" /\ x.sys = s) = 1
       /\ \A i, j \in 1..Len(log') :
            (/\ log'[i].k = "unconfigure"
             /\ \/ log'[j].k = "free"
                \/ log'[j].k = "emit" /\ log'[j].e.ev = "OnEntityDestroyed")
              => i < j]_vars

\* The entities the world has created, alive or not
Created == {a \in Addrs : heap[a].used}

\* C13: lastEntityId never decreases, across reset() too, and no two
\* entities the world has created were given the same id.
C13_IdsNeverReused ==
  /\ [](\A a, b \in Created : a # b => heap[a].id # heap[b].id)
  /\ [][lastEntityId' >= lastEntityId]_vars

\* C13 as the program has it: lastEntityId decreases only in reset(), which
\* sets it to 0; create() gives an id greater than lastEntityId, so greater
\* than every id given since the last reset; the entities of the sequence
\* have distinct ids between 1 and lastEntityId.
C13_IdsUniqueWithinEpoch ==
  /\ [](\A i, j \in 1..Len(entities) :
          /\ heap[entities[i]].id \in 1..lastEntityId
          /\ i # j => heap[entities[i]].id # heap[entities[j]].id)
  /\ [][/\ lastEntityId' < lastEntityId => (lastCall'.op = "reset" /\ lastEntityId' = 0)
        /\ lastCall'.op = "create" =>
             /\ heap'[lastCall'.ret].id > lastEntityId
             /\ lastEntityId' >= heap'[lastCall'.ret].id]_vars

\* C13's case: a create after a reset gave an id that an entity created
\* before the reset had
C13_Witness ==
  /\ lastCall.op = "create"
  /\ \E b \in Created \ {lastCall.ret} :
       ~heap[b].alloc /\ heap[b].id = heap[lastCall.ret].id

\* C14: a new world has lastEntityId 0; create() returns the entity whose id
\* is lastEntityId + 1 and makes that the new lastEntityId; reset() makes it
\* 0; no other call changes it.  So the ids of an epoch are 1, 2, 3, ...
\* whatever is called in between, and start again at 1 after reset().
C14_IdsCountFromOne ==
  /\ [](lastCall = NoCall => lastEntityId = 0)
  /\ [][/\ lastCall'.op = "create" =>
             /\ heap'[lastCall'.ret].id = lastEntityId + 1
             /\ lastEntityId' = lastEntityId + 1
             /\ entities' = Append(entities, lastCall'.ret)
        /\ lastCall'.op = "reset" => lastEntityId' = 0
        /\ lastCall'.op \notin {"create", "reset"} => lastEntityId' = lastEntityId]_vars

\* C14's case: the third create of an epoch, after the entities of the
\* first two were destroyed
C14_Witness ==
  /\ lastCall.op = "create" /\ heap[lastCall.ret].id = 3
  /\ entities = <<lastCall.ret>>

\* What reset() does whatever the entities are: every entity of the
\* sequence is deallocated once, after the events about it, the sequence is
\* left empty and lastEntityId 0, systems and subscribers are as they were.
C15_ResetClears ==
  /\ \A a \in Addrs : InSeq(entities, a) =>
       /\ ~heap'[a].alloc
       /\ CountIn(log', LAMBDA x : x.k = "free" /\ x.e.ent = a /\ x.snap.obj.alloc) = 1
       /\ CountIn(log', LAMBDA x : x.k = "free" /\ x.e.ent = a) = 1
       /\ \A i, j \in 1..Len(log') :
            (log'[i].k = "emit" /\ log'[i].e.ent = a /\ log'[j].k = "free" /\ log'[j].e.ent = a)
              => i < j
  /\ entities' = <<>> /\ GetCount(World') = 0
  /\ lastEntityId' = 0
  /\ UNCHANGED <<systems, disabledSystems, subscribers, sysObj, alive>>

\* C15: reset() emits OnEntityDestroyed for each entity that is in the
\* sequence when it is called, deallocates each of them, leaves the sequence
\* empty and lastEntityId 0, and leaves systems and subscribers as they were.
C15_ResetEmitsForAll ==
  [][lastCall'.op = "reset" =>
       /\ C15_ResetClears
       /\ \A a \in Addrs : InSeq(entities, a) =>
            CountIn(log', LAMBDA x : x.k = "emit" /\ x.e = Event("OnEntityDestroyed", a, NoType)) = 1]_vars

\* C15 as the program has it: reset() emits OnEntityDestroyed once for each
\* entity of the sequence that is not pending destroy and not at all for one
\* that is (its event was emitted when it was destroyed).
C15_ResetEmitsForNotPending ==
  [][lastCall'.op = "reset" =>
       /\ C15_ResetClears
       /\ \A a \in Addrs : InSeq(entities, a) =>
            CountIn(log', LAMBDA x : x.k = "emit" /\ x.e = Event("OnEntityDestroyed", a, NoType))
              = (IF heap[a].pending THEN 0 ELSE 1)
       /\ CountIn(log', LAMBDA x : x.k = "emit" /\ x.e.ev = "OnEntityDestroyed")
            = Cardinality({a \in Addrs : InSeq(entities, a) /\ ~heap[a].pending})]_vars

\* C15's case: a reset of a world with a subscriber, an entity that was
\* pending destroy and one that was not
C15_Witness ==
  /\ lastCall.op = "reset" /\ DOMAIN subscribers # {}
  /\ CountIn(log, LAMBDA x : x.k = "free") = 2
  /\ CountIn(log, LAMBDA x : x.k = "emit" /\ x.e.ev = "OnEntityDestroyed") = 1

C16_ImmediateStep ==
  (lastCall'.op = "destroy" /\ lastCall'.imm /\ lastCall'.ent # NullPtr) =>
    LET a == lastCall'.ent
        destroyed(x) == x.k = "emit" /\ x.e = Event("OnEntityDestroyed", a, NoType)
    IN /\ CountIn(log', destroyed) = (IF heap[a].pending THEN 0 ELSE 1)
       /\ CountIn(log', LAMBDA x : x.k = "emit" /\ x.e.ev = "OnEntityDestroyed")
            = CountIn(log', destroyed)
       /\ \A i \in 1..Len(log') :
            destroyed(log'[i]) =>
              /\ log'[i].snap.inSeq /\ log'[i].snap.obj.alloc
              /\ \A j \in 1..Len(log') : (log'[j].k = "free" /\ log'[j].e.ent = a) => i < j
       /\ entities' = RemoveValue(entities, a)
       /\ GetCount(World') = GetCount(World) - 1
       /\ ~heap'[a].alloc
       /\ CountIn(log', LAMBDA x : x.k = "free" /\ x.e.ent = a /\ x.snap.obj.alloc) = 1
       /\ CountIn(log', LAMBDA x : x.k = "free") = 1
       /\ GetById(World', heap[a].id) = NullPtr
       /\ \A b \in Addrs \ {a} : heap'[b] = heap[b]

\* C16: destroy(e, true) on an entity that is pending destroy removes it
\* from the sequence and deallocates it in the call and emits nothing;
\* on an entity that is not, it emits OnEntityDestroyed once, while the
\* entity is in the sequence, and then removes and deallocates it; when the
\* call returns getById(e.id) is null and getCount() is one less.
C16_ImmediateDestroy ==
  [][C16_ImmediateStep]_vars

\* C16's case: an immediate destroy of an entity that was queued, from a
\* sequence of three
C16_Witness ==
  /\ lastCall.op = "destroy" /\ lastCall.imm /\ lastCall.pre
  /\ Len(entities) = 2 /\ ~heap[lastCall.ent].alloc
  /\ CountIn(log, LAMBDA x : x.k = "emit") = 0
  /\ CountIn(log, LAMBDA x : x.k = "free") = 1

\* The calls that destroy entities
Destroying == {"destroy", "cleanup", "tick", "reset", "destroyWorld"}

C17_Step ==
  lastCall'.op \in Destroying =>
    \A i \in 1..Len(log') :
      LET x == log'[i]
          a == x.e.ent
      IN /\ x.e.ev = "OnEntityDestroyed" =>
              /\ x.snap.inSeq /\ x.snap.obj.alloc /\ x.snap.obj.pending
              /\ x.snap.obj.comps = heap[a].comps
              /\ \A j \in 1..(i - 1) :
                   ~(log'[j].e.ev = "OnComponentRemoved" /\ log'[j].e.ent = a)
         /\ x.e.ev = "OnComponentRemoved" => (heap[a].alloc /\ ~heap'[a].alloc)
         /\ (x.e.ev = "OnEntityDestroyed" /\ lastCall'.op = "destroy" /\ ~lastCall'.imm) =>
              /\ heap'[a].comps = heap[a].comps
              /\ \A j \in 1..Len(log') : log'[j].e.ev # "OnComponentRemoved"

\* C17: when OnEntityDestroyed is emitted and delivered for an entity, by
\* destroy, reset or teardown, the entity is in the sequence, is pending
\* destroy and holds the components it had before the call, no
\* OnComponentRemoved of its components having been emitted; these are
\* emitted only in the call that deallocates the entity, so by a deferred
\* destroy not at all.
C17_DestroyedWhileIntact ==
  [][C17_Step]_vars

\* C17's case: a subscriber of OnEntityDestroyed receives the event of an
\* entity with two components, which are removed later in the call
C17_Witness ==
  /\ lastCall.op \in {"reset", "destroyWorld", "destroy"}
  /\ \E i, j \in 1..Len(log) :
       /\ i < j
       /\ log[i].k = "recv" /\ log[i].e.ev = "OnEntityDestroyed"
       /\ \A t \in Types : log[i].snap.obj.comps[t].st = "live"
       /\ log[j].e.ev = "OnComponentRemoved" /\ log[j].e.ent = log[i].e.ent

C18_CleanupStep ==
  lastCall'.op = "cleanup" =>
    /\ entities' = SelectSeq(entities, LAMBDA a : ~heap[a].pending)
    /\ lastCall'.retOk = (\E i \in 1..Len(entities) : heap[entities[i]].pending)
    /\ \A i \in 1..Len(entities') : ~heap'[entities'[i]].pending
    /\ \A a \in Addrs :
         IF InSeq(entities, a) /\ heap[a].pending
         THEN /\ ~heap'[a].alloc
              /\ CountIn(log', LAMBDA x : x.k = "free" /\ x.e.ent = a /\ x.snap.obj.alloc) = 1
         ELSE heap'[a] = heap[a]
    /\ CountIn(log', LAMBDA x : x.k = "free")
         = Cardinality({a \in Addrs : InSeq(entities, a) /\ heap[a].pending})
    /\ lastCall.op = "cleanup" =>
         (~lastCall'.retOk /\ log' = <<>> /\ UNCHANGED progVars)

\* C18: cleanup() removes from the sequence, and deallocates, exactly the
\* entities that are pending destroy and keeps the others in their order; it
\* returns true exactly when it removed one; after it no entity of the
\* sequence is pending destroy, and a cleanup() that follows it at once
\* returns false and changes nothing.
C18_CleanupRemovesPending ==
  [][C18_CleanupStep]_vars

\* C18's case: a cleanup that removed the second of three entities
C18_Witness ==
  /\ lastCall.op = "cleanup" /\ lastCall.retOk
  /\ Len(entities) = 2 /\ heap[entities[1]].id = 1 /\ heap[entities[2]].id = 3
  /\ \E a \in Created : ~heap[a].alloc /\ heap[a].id = 2

\* The entity a has a Position and a Rotation
Moves(a) == HasAll(World, a, {"Position", "Rotation"})

C19_TickStep ==
  lastCall'.op = "tick" =>
    LET p == lastCall'.val
        n == Len(systems)
    IN /\ entities' = SelectSeq(entities, LAMBDA a : ~heap[a].pending)
       /\ \A a \in Addrs : (InSeq(entities, a) /\ heap[a].pending) => ~heap'[a].alloc
       /\ \A i, j \in 1..Len(log') :
            (log'[i].k = "free" /\ log'[j].k = "tick") => i < j
       /\ systems' = systems
       /\ [i \in 1..Len(Ticked') |-> Ticked'[i].sys] = systems
       /\ \A s \in Systems :
            CountIn(log', LAMBDA x : x.k = "tick" /\ x.sys = s)
              = (IF InSeq(systems, s) THEN 1 ELSE 0)
       /\ \A i \in 1..Len(log') : log'[i].k = "tick" => log'[i].e.num = p
       /\ \A i \in 1..Len(entities') :
            LET a   == entities'[i]
                pos == heap[a].comps["Position"].data
                rot == heap[a].comps["Rotation"].data
            IN IF Moves(a)
               THEN /\ heap'[a].comps["Position"].data = <<pos[1] + n * p, pos[2] + n * p>>
                    /\ heap'[a].comps["Rotation"].data = <<rot[1] + n * 2 * p>>
                    /\ (n = 1 /\ p = 10 /\ pos = <<0, 0>> /\ rot = <<0>>) =>
                         /\ heap'[a].comps["Position"].data = <<10, 10>>
                         /\ heap'[a].comps["Rotation"].data = <<20>>
                    /\ (n = 1 /\ p = 10 /\ pos = <<10, 10>> /\ rot = <<20>>) =>
                         /\ heap'[a].comps["Position"].data = <<20, 20>>
                         /\ heap'[a].comps["Rotation"].data = <<40>>
               ELSE heap'[a] = heap[a]

\* C19: tick(p) first completes cleanup(), so the entities that were pending
\* destroy are deallocated and out of the sequence before the first system
\* runs, and then calls tick(world, p) once on each system of the active
\* list, with p; each call of the sample's system adds p to both
\* coordinates of a Position and 2p to the angle of a Rotation, so two ticks
\* of 10 take Position(0,0), Rotation(0) to (10,10), 20 and to (20,20), 40.
C19_TickCleansThenTicks ==
  [][C19_TickStep]_vars

\* C19's case: the tick of 10 of one system that takes an entity to
\* Position(20,20), Rotation(40) and removes an entity that was queued
C19_Witness ==
  /\ lastCall.op = "tick" /\ lastCall.val = 10 /\ Len(systems) = 1
  /\ CountIn(log, LAMBDA x : x.k = "free") = 1
  /\ \E a \in Live :
       /\ Moves(a)
       /\ heap[a].comps["Position"].data = <<20, 20>>
       /\ heap[a].comps["Rotation"].data = <<40>>

C20_Step ==
  \A s \in Systems :
    /\ (lastCall'.op = "disableSystem" /\ lastCall'.sys = s /\ InSeq(systems, s)) =>
         (~InSeq(systems', s) /\ InSeq(disabledSystems', s))
    /\ (lastCall'.op = "enableSystem" /\ lastCall'.sys = s /\ InSeq(disabledSystems, s)) =>
         (InSeq(systems', s) /\ ~InSeq(disabledSystems', s))
    /\ (~InSeq(systems, s) /\ InSeq(systems', s)) =>
         (lastCall'.op \in {"enableSystem", "registerSystem"} /\ lastCall'.sys = s)
    /\ (InSeq(systems, s) /\ ~InSeq(systems', s)) =>
         (lastCall'.op \in {"disableSystem", "unregisterSystem"} /\ lastCall'.sys = s)
    /\ lastCall'.op = "tick" =>
         CountIn(log', LAMBDA x : x.k = "tick" /\ x.sys = s)
           = (IF InSeq(systems, s) THEN 1 ELSE 0)
    /\ lastCall'.op \in {"disableSystem", "enableSystem"} =>
         /\ sysObj' = sysObj
         /\ CountIn(log', LAMBDA x : x.k \in {"configure", "unconfigure"}) = 0

\* C20: disableSystem(s) takes an active s out of the active list, where
\* only enableSystem(s) puts it back, and enableSystem(s) puts a disabled s
\* into it, where it stays until it is disabled or unregistered; a tick
\* calls s.tick once if s is in the active list and not at all if it is not;
\* disableSystem and enableSystem call no configure and no unconfigure.
C20_DisableEnable ==
  [][C20_Step]_vars

\* C20's case: a tick calls a system that was disabled and enabled again
\* (it is behind a system registered after it)
C20_Witness ==
  /\ lastCall.op = "tick" /\ Len(Ticked) = 2
  /\ sysObj[Ticked[2].sys].regNo = 1
  /\ sysObj[Ticked[2].sys].nConfigure = 1 /\ sysObj[Ticked[2].sys].nUnconfigure = 0

\* The subscribers the last call delivered an event to, in call order
Received(l) == SelectSeq(l, LAMBDA x : x.k = "recv")

C21_EmitStep ==
  lastCall'.op = "emit" =>
    LET bucket == Bucket(subscribers, lastCall'.key)
        e      == SomeEvent(lastCall'.val)
    IN /\ [i \in 1..Len(Received(log')) |-> Received(log')[i].sub] = bucket
       /\ \A i \in 1..Len(Received(log')) : Received(log')[i].e = e
       /\ Len(log') = 1 + Len(bucket)
       /\ log'[1].k = "emit" /\ log'[1].e = e
       /\ \A i \in 2..Len(log') : log'[i].k = "recv"
       /\ UNCHANGED progVars

\* C21: emit<T>(event) calls receive once for each entry of the bucket of T,
\* in the order of the bucket, with the event, before it returns, and calls
\* nobody else; with no bucket of T it does nothing.
C21_EmitDeliversInOrder ==
  [][C21_EmitStep]_vars

\* C21's case: an emit to a bucket of two subscribers, the second of which
\* subscribed first to another event type
C21_Witness ==
  /\ lastCall.op = "emit"
  /\ Len(Received(log)) = 2
  /\ Received(log)[1].sub = "logB" /\ Received(log)[2].sub = "logA"
  /\ Bucket(subscribers, EvKey("OnEntityCreated", NoType)) = <<"logA">>

C22_Step ==
  /\ \A k \in DOMAIN subscribers' : Len(subscribers'[k]) > 0
  /\ \A k \in DOMAIN subscribers \ DOMAIN subscribers' :
       /\ lastCall'.op \in {"unsubscribe", "unsubscribeAll"}
       /\ lastCall'.op = "unsubscribe" => lastCall'.key = k
       /\ Len(RemoveValue(subscribers[k], lastCall'.sub)) = 0
  /\ lastCall'.op = "unsubscribe" /\ lastCall'.key \in DOMAIN subscribers
       => LET rest == RemoveValue(subscribers[lastCall'.key], lastCall'.sub)
          IN IF Len(rest) = 0
             THEN lastCall'.key \notin DOMAIN subscribers'
             ELSE Bucket(subscribers', lastCall'.key) = rest

\* C22: the map of subscribers never holds a bucket without a subscriber; a
\* call erases a bucket only when the subscriber it removes was the only
\* one left in it, and unsubscribe<T> that removes the last subscriber of
\* the bucket of T erases that bucket in the same call.
C22_NoEmptyBucket ==
  [][C22_Step]_vars

\* C22's case: unsubscribe<T> has removed the last subscriber of the bucket
\* of T, which is gone, while a bucket that has a subscriber is kept
C22_Witness ==
  /\ lastCall.op = "unsubscribe" /\ lastCall.pre
  /\ lastCall.key \notin DOMAIN subscribers
  /\ DOMAIN subscribers # {}

\* The entities at positions the loop has visited or passed over
Visited ==
  {a \in Addrs : /\ InSeq(entities, a)
                 /\ scan.done \/ IndexOf(entities, a) <= scan.index + 1}

\* C23: a loop tests each entity against the state at the time it advances
\* to it: an entity of the world the loop began on that the body made match
\* while its position was not yet visited is yielded once the loop is past
\* that position, and one the body made not match is not yielded.
C23_FilterSeesCurrentState ==
  (scan.active \/ scan.done) =>
    /\ \A a \in scan.gained :
         (a \in Visited /\ IndexOf(entities, a) <= scan.lastIndex)
           => InSeq(scan.yielded, a)
    /\ \A a \in scan.lost : ~InSeq(scan.yielded, a)

\* C23's case: a finished loop that yielded an entity the body had given
\* its missing component and left out one the body had taken a component of
C23_Witness ==
  /\ scan.done
  /\ \E a \in scan.gained : InSeq(scan.yielded, a)
  /\ \E a \in scan.lost : a \in Visited /\ ~InSeq(scan.yielded, a)

\* The list of types written in the opposite order
Reversed(ts) == [i \in 1..Len(ts) |-> ts[Len(ts) + 1 - i]]

C24_Step ==
  LET a   == lastCall'.ent
      ts  == lastCall'.types
      all == \A i \in 1..Len(ts) : Has(World, a, ts[i])
  IN
  /\ lastCall'.op = "get" =>
       /\ lastCall'.retOk <=> Has(World, a, lastCall'.t)
       /\ log' = <<>> /\ UNCHANGED progVars
  /\ lastCall'.op = "has" =>
       /\ lastCall'.retOk <=> all
       /\ HasTypes(World, a, Reversed(ts)) <=> HasTypes(World, a, ts)
       /\ log' = <<>> /\ UNCHANGED progVars
  /\ lastCall'.op = "with" =>
       /\ lastCall'.retOk <=> all
       /\ IF all
          THEN /\ Len(log') = 1 /\ log'[1].k = "view"
               /\ log'[1].e.ent = a /\ log'[1].e.num = Len(ts)
          ELSE log' = <<>>
       /\ UNCHANGED progVars

\* C24: get<T>() returns a valid handle exactly when has<T>() is true;
\* with<Types...>(view) calls view once, with valid handles, and returns
\* true when the entity has every type of the list, and otherwise returns
\* false without calling it; has<Types...>() is the conjunction of the
\* single checks in whatever order the types are written; none of the three
\* changes the components or anything else of the world.
C24_QueriesAgree ==
  [][C24_Step]_vars

\* C24's cases: with<Position, Rotation> ran its callback on an entity that
\* has both
C24_Witness ==
  /\ lastCall.op = "with" /\ lastCall.retOk
  /\ lastCall.types = <<"Position", "Rotation">>
  /\ Len(log) = 1 /\ log[1].k = "view"

C25_Step ==
  LET n     == lastCall'.val
      found == {a \in Addrs : InSeq(entities, a) /\ heap[a].id = n}
  IN
  /\ lastCall'.op = "getById" =>
       /\ IF n # InvalidEntityId /\ found # {}
          THEN found = {lastCall'.ret}
          ELSE lastCall'.ret = NullPtr
       /\ n > lastEntityId => lastCall'.ret = NullPtr
       /\ log' = <<>> /\ UNCHANGED progVars
  /\ lastCall'.op = "getByIndex" =>
       /\ lastCall'.ret = IF n < GetCount(World) THEN entities[n + 1] ELSE NullPtr
       /\ log' = <<>> /\ UNCHANGED progVars

\* C25: getById(id) returns the entity of the sequence that has that id,
\* pending destroy or not, and null when there is none (id 0, an id above
\* lastEntityId, the id of an entity removed from the sequence);
\* getByIndex(i) returns the entity at position i when i < getCount() and
\* null otherwise; neither changes the world.
C25_Lookups ==
  [][C25_Step]_vars

\* C25's case: getById has returned an entity that is pending destroy, in a
\* world an entity was removed from
C25_Witness ==
  /\ lastCall.op = "getById"
  /\ lastCall.ret # NullPtr /\ heap[lastCall.ret].pending
  /\ Len(entities) < lastEntityId

\* The calls C26 is about, told from the state they are made in
NoOpCall ==
  \/ lastCall'.op = "destroy" /\ lastCall'.ent = NullPtr
  \/ /\ lastCall'.op = "destroy" /\ lastCall'.ent # NullPtr /\ ~lastCall'.imm
     /\ heap[lastCall'.ent].pending
  \/ lastCall'.op = "disableSystem" /\ ~InSeq(systems, lastCall'.sys)
  \/ lastCall'.op = "enableSystem" /\ ~InSeq(disabledSystems, lastCall'.sys)

\* C26: destroy(nullptr), destroy(e, false) of an entity that is pending
\* destroy, disableSystem of a system that is not active and enableSystem
\* of a system that is not disabled change nothing of the world, emit no
\* event and call no hook of a system or a subscriber.
C26_GuardedCallsDoNothing ==
  [][NoOpCall => (log' = <<>> /\ UNCHANGED progVars)]_vars

\* C26's case: one of the four calls made where it could do harm: a
\* subscriber listens to OnEntityDestroyed, a system is active and another
\* is disabled
C26_Witness ==
  /\ systems # <<>> /\ disabledSystems # <<>>
  /\ EvKey("OnEntityDestroyed", NoType) \in DOMAIN subscribers
  /\ \/ lastCall.op = "destroy" /\ ~lastCall.imm /\ lastCall.pre
     \/ lastCall.op = "disableSystem" /\ ~lastCall.pre /\ InSeq(disabledSystems, lastCall.sys)

C27_Step ==
  /\ \A i \in 1..Len(log') :
       log'[i].k = "free" =>
         /\ log'[i].snap.obj.alloc
         /\ log'[i].snap.obj.pending
         /\ log'[i].snap.obj.evDestroyed = 1
  /\ \A a \in Addrs :
       /\ heap'[a].alloc => heap'[a].evDestroyed = (IF heap'[a].pending THEN 1 ELSE 0)
       /\ CountIn(log', LAMBDA x : /\ x.k = "emit" /\ x.e.ev = "OnEntityDestroyed"
                                  /\ x.e.ent = a)
            = (IF heap[a].alloc /\ heap[a].evDestroyed = 0 /\ heap'[a].evDestroyed # 0
               THEN 1
               ELSE IF heap[a].alloc /\ ~heap[a].pending /\ ~heap'[a].alloc
               THEN 1 ELSE 0)
       /\ CountIn(log', LAMBDA x : x.k = "free" /\ x.e.ent = a)
            = (IF heap[a].alloc /\ ~heap'[a].alloc THEN 1 ELSE 0)

\* C27: OnEntityDestroyed is emitted once in the life of an entity, when it
\* is first destroyed (deferred or immediate) or when reset() or the
\* teardown of the world meets it not yet destroyed, and never again; the
\* entity is deallocated (by cleanup, tick, an immediate destroy, reset or
\* the teardown) only after that one emit.
C27_DestroyedOnceBeforeFree ==
  [][C27_Step]_vars

\* C27's case: the teardown of a world that holds an entity pending destroy
\* and one that is not: it emits for the second only and deallocates both
C27_Witness ==
  /\ lastCall.op = "destroyWorld"
  /\ LogCount(LAMBDA x : x.k = "free") = 2
  /\ LogCount(LAMBDA x : x.k = "emit" /\ x.e.ev = "OnEntityDestroyed") = 1

\* C28: no entity is deallocated twice and no deallocated entity stays in
\* the sequence, also when a subscriber of OnEntityDestroyed calls
\* destroy(event.entity, true) while the destroy that emitted the event is
\* in progress.
C28_NoDoubleFree ==
  [][/\ \A i \in 1..Len(log') : log'[i].k = "free" => log'[i].snap.obj.alloc
     /\ \A a \in Addrs : InSeq(entities', a) => heap'[a].alloc]_vars

\* C29: a loop begun on a world of n entities yields no entity that
\* create() appended while it ran: it never runs its body at a position
\* n or beyond.
C29_YieldsNoAppended ==
  /\ scan.active => scan.index < scan.lastIndex
  /\ (scan.active \/ scan.done) =>
       \A a \in Addrs : InSeq(scan.yielded, a) => IndexOf(entities, a) <= scan.lastIndex

\* The log of a call read as nested deliveries.  ParseEmit(l, i) reads the
\* emit noted at l[i]: one receive per entry of the bucket of its event, in
\* order, each followed by what that receive did (ParseBody: notes of other
\* kinds and whole nested emits, up to the next receive).  Each returns the
\* index after what it read, or 0 when the log does not have that shape.
RECURSIVE ParseBody(_, _)
RECURSIVE ParseRecvs(_, _, _, _, _)
ParseEmit(l, i) ==
  ParseRecvs(l, i + 1, Bucket(subscribers, EvKey(l[i].e.ev, l[i].e.t)), 1, l[i].e)

ParseRecvs(l, i, bucket, j, e) ==
  IF j > Len(bucket) THEN i
  ELSE IF i > Len(l) THEN 0
  ELSE IF l[i].k # "recv" \/ l[i].sub # bucket[j] \/ l[i].e # e THEN 0
  ELSE LET n == ParseBody(l, i + 1) IN
       IF n = 0 THEN 0 ELSE ParseRecvs(l, n, bucket, j + 1, e)

ParseBody(l, i) ==
  IF i > Len(l) THEN i
  ELSE IF l[i].k = "recv" THEN i
  ELSE IF l[i].k = "emit"
  THEN LET n == ParseEmit(l, i) IN IF n = 0 THEN 0 ELSE ParseBody(l, n)
  ELSE ParseBody(l, i + 1)

\* C30: an event emitted by a handler is delivered to every subscriber of
\* its type, in order, before the handler goes on and so before the next
\* subscriber of the outer event is called; when the outermost emit returns
\* every event emitted meanwhile has been delivered to its whole bucket.
C30_NestedEmitsAreSynchronous ==
  [][lastCall'.op = "emit" => ParseBody(log', 1) = Len(log') + 1]_vars

\* C30's case: the first subscriber of SomeEvent emitted OnEntityDestroyed,
\* which its subscribers received before the second subscriber of SomeEvent
\* received SomeEvent
C30_Witness ==
  /\ lastCall.op = "emit"
  /\ \E i, j, k \in 1..Len(log) :
       /\ i < j /\ j < k
       /\ log[1].k = "emit" /\ log[1].e.ev = "SomeEvent"
       /\ log[2].k = "recv" /\ log[2].sub = "testSystem"
       /\ log[i].k = "emit" /\ log[i].e.ev = "OnEntityDestroyed"
       /\ log[j].k = "recv" /\ log[j].e.ev = "OnEntityDestroyed" /\ j = i + 2
       /\ log[k].k = "recv" /\ log[k].e.ev = "SomeEvent" /\ log[k].sub = "logA"

C31_Step ==
  /\ lastCall'.op = "scanNext" => scan'.index > scan.index
  /\ (scan'.active \/ scan'.done) =>
       /\ GetCount(World') <= scan'.lastIndex
       /\ Len(scan'.yielded) <= scan'.lastIndex
       /\ (scan'.active /\ lastCall'.op \in {"scanBegin", "scanNext"})
            => scan'.index < GetCount(World')
       /\ (scan.active /\ lastCall'.op # "scanNext") =>
            (scan'.index = scan.index /\ GetCount(World') <= GetCount(World))

\* C31: a loop whose body creates no entity ends: each advance moves the
\* position forward, the body leaves it where it is and does not lengthen
\* the sequence, the loop runs its body only at a position below
\* getCount(), and the loop yields no more entities than the world held when it began,
\* whether the body destroys entities (at once or not) or assigns and
\* removes components.
C31_ScansTerminate ==
  /\ [][C31_Step]_vars
  /\ scan.active ~> ~scan.active

\* C31's case: a finished loop over three entities whose body destroyed an
\* entity at once, so that the sequence is shorter than when it began
C31_Witness ==
  /\ scan.done /\ scan.lastIndex = 3
  /\ Len(entities) < 3
  /\ "other" \in scan.body
  /\ Len(scan.yielded) >= 2

\* The ids of the entities of the sequence, in sequence order
SeqIds == [i \in 1..Len(entities) |-> heap[entities[i]].id]

\* C32: while the world exists, the ids of the entities of the sequence are
\* at least 1 and at most lastEntityId and grow strictly along the
\* sequence, so no two are equal and getById(id) has at most one entity to
\* find.
C32_IdsIncreaseAlongSequence ==
  alive =>
    /\ \A i \in 1..Len(entities) :
         /\ SeqIds[i] # InvalidEntityId
         /\ SeqIds[i] <= lastEntityId
         /\ \A j \in (i + 1)..Len(entities) : SeqIds[i] < SeqIds[j]
    /\ \A id \in 0..(MaxEntities + 1) :
         Cardinality({i \in 1..Len(entities) : SeqIds[i] = id}) <= 1

\* C32's case: the entity between two others was removed from the
\* sequence, which holds the first and the third in that order
C32_Witness ==
  /\ alive /\ SeqIds = <<1, 3>>
  /\ lastCall.op \in {"destroy", "cleanup", "tick"}

====
